---- MODULE Spec2Model ----
(***************************************************************************)
(* Model of gillespie_lv (src/app.py), the Gillespie stochastic simulation *)
(* of the Lotka-Volterra predator-prey process.                            *)
(*                                                                         *)
(* Numbers.  Rate coefficients are real in the program; here they are      *)
(* integers counted in a common unit (one hundredth, so that a = 1.0 is    *)
(* 100 and d = 0.01 is 1).  Propensities are then integers in that unit    *)
(* and the uniform draw r in [0, total_rate) is represented by the integer *)
(* part of r in the same unit: every comparison of the event selector is   *)
(* against an integer threshold, so all r in [k, k+1) select the same      *)
(* event as k.  Time is counted in ticks; max_time lies on the tick grid.  *)
(* The waiting time returned by np.random.exponential is a double that is  *)
(* >= 0: it is 0.0 when the underlying uniform variate is 0.0, and a       *)
(* small positive dt is absorbed by the floating-point addition t += dt.   *)
(* Both appear here as dt = 0.                                             *)
(*                                                                         *)
(* dt is the local of that name (0 until the first draw); events counts    *)
(* the iterations that have applied an event.                              *)
(***************************************************************************)
EXTENDS Integers, Sequences, FiniteSets

VARIABLES prey_init, pred_init, a, b, c, d, max_time,
          prey, pred, t, dt, times, prey_pop, pred_pop, pc, events

args == <<prey_init, pred_init, a, b, c, d, max_time>>
vars == <<prey_init, pred_init, a, b, c, d, max_time,
          prey, pred, t, dt, times, prey_pop, pred_pop, pc, events>>

(* ---------------------------- bounds ----------------------------------- *)
\* largest initial population tried
MaxPop == 1
\* largest rate coefficient tried (in rate units)
MaxRate == 1
\* largest horizon tried (in ticks)
MaxTime == 2
\* largest waiting time drawn (in ticks)
MaxDt == 2
\* longest trajectory followed
MaxSamples == 3

(* ---------------------------- inputs ----------------------------------- *)
\* the function checks none of its arguments, so every integer is accepted
PopInits == -1 .. MaxPop
RateValues == -1 .. MaxRate
Horizons == 0 .. MaxTime

\* scenario B of the specification, rates in hundredths
ScenarioB ==
    /\ prey_init = 0 /\ pred_init = 5
    /\ a = 100 /\ b = 2 /\ c = 100 /\ d = 1
    /\ max_time = 50

(* ------------------------ pure parts of the loop ----------------------- *)
\* mutants of the loop guard
LoopGuardNoTime(tt, pr, pd) == pr > 0 /\ pd > 0
LoopGuardOr(tt, pr, pd) == tt < max_time /\ (pr > 0 \/ pd > 0)
LoopGuardNotEqual(tt, pr, pd) == tt # max_time /\ pr > 0 /\ pd > 0
LoopGuardNoPrey(tt, pr, pd) == tt < max_time /\ pd > 0
LoopGuardNoPred(tt, pr, pd) == tt < max_time /\ pr > 0

\* while t < max_time and prey > 0 and pred > 0
LoopGuard(tt, pr, pd) == tt < max_time /\ pr > 0 /\ pd > 0

\* rates = [a*prey, b*prey*pred, c*pred, d*prey*pred]
Rates(pr, pd) == <<a * pr, b * pr * pd, c * pd, d * pr * pd>>

\* total_rate = sum(rates)
TotalRate(rates) == ((rates[1] + rates[2]) + rates[3]) + rates[4]

\* mutants of the zero-rate test
ZeroRateNegative(total) == total < 0
ZeroRateAtMostOne(total) == total <= 1

\* if total_rate == 0: break
ZeroRate(total) == total = 0

\* dt = np.random.exponential(1 / total_rate), for total_rate > 0
ExponentialDraws == 0 .. MaxDt

\* r = np.random.uniform(0, total_rate), for total_rate > 0
UniformDraws(total) == 0 .. (total - 1)

\* mutant: the waiting time is cut at the horizon
TimeAfterClipped(tt, w) == IF tt + w > max_time THEN max_time ELSE tt + w

\* t += dt
TimeAfter(tt, w) == tt + w

\* mutant: the comparisons include the upper end of each interval
EventInclusive(r, rates) ==
    IF r <= rates[1] THEN 0
    ELSE IF r <= rates[1] + rates[2] THEN 1
    ELSE IF r <= rates[1] + rates[2] + rates[3] THEN 2
    ELSE 3

\* mutant: each comparison is against one rate, not the running sum
EventNoCumulative(r, rates) ==
    IF r < rates[1] THEN 0
    ELSE IF r < rates[2] THEN 1
    ELSE IF r < rates[3] THEN 2
    ELSE 3

\* the if / elif / elif / else chain on r; events are numbered 0..3
Event(r, rates) ==
    IF r < rates[1] THEN 0
    ELSE IF r < rates[1] + rates[2] THEN 1
    ELSE IF r < rates[1] + rates[2] + rates[3] THEN 2
    ELSE 3

\* mutant: predation removes two prey
PreyAfterTwo(ev, pr) ==
    IF ev = 0 THEN pr + 1 ELSE IF ev = 1 THEN pr - 2 ELSE pr

\* prey += 1 (event 0), prey -= 1 (event 1)
PreyAfter(ev, pr) ==
    IF ev = 0 THEN pr + 1 ELSE IF ev = 1 THEN pr - 1 ELSE pr

\* mutant: the else branch leaves pred alone
PredAfterNoBirth(ev, pd) ==
    IF ev = 2 THEN pd - 1 ELSE pd

\* pred -= 1 (event 2), pred += 1 (event 3)
PredAfter(ev, pd) ==
    IF ev = 2 THEN pd - 1 ELSE IF ev = 3 THEN pd + 1 ELSE pd

\* mutant: the new entry replaces the last one
RecordOverwrite(seq, x) == [seq EXCEPT ![Len(seq)] = x]

\* times.append(t), prey_pop.append(prey), pred_pop.append(pred)
Record(seq, x) == Append(seq, x)

\* mutant: the prey list starts like the times list
PreyPopInitZero(pr) == <<0>>

\* prey_pop = [prey]
PreyPopInit(pr) == <<pr>>

(* ------------------------------ state ---------------------------------- *)
\* state on reaching the while statement for the first time
Init ==
    /\ \/ /\ prey_init \in PopInits
          /\ pred_init \in PopInits
          /\ a \in RateValues /\ b \in RateValues
          /\ c \in RateValues /\ d \in RateValues
          /\ max_time \in Horizons
       \/ ScenarioB
    /\ prey = prey_init
    /\ pred = pred_init
    /\ t = 0
    /\ dt = 0
    /\ times = <<0>>
    /\ prey_pop = PreyPopInit(prey_init)
    /\ pred_pop = <<pred_init>>
    /\ pc = "loop"
    /\ events = 0

\* one full iteration of the loop body that applies an event
Iterate ==
    /\ pc = "loop"
    /\ LoopGuard(t, prey, pred)
    /\ Len(times) < MaxSamples
    /\ LET rates == Rates(prey, pred)
           total_rate == TotalRate(rates)
       IN /\ ~ZeroRate(total_rate)
          /\ total_rate > 0
          /\ \E w \in ExponentialDraws, r \in UniformDraws(total_rate) :
                LET ev == Event(r, rates)
                IN /\ dt' = w
                   /\ t' = TimeAfter(t, w)
                   /\ prey' = PreyAfter(ev, prey)
                   /\ pred' = PredAfter(ev, pred)
                   /\ times' = Record(times, TimeAfter(t, w))
                   /\ prey_pop' = Record(prey_pop, PreyAfter(ev, prey))
                   /\ pred_pop' = Record(pred_pop, PredAfter(ev, pred))
    /\ events' = events + 1
    /\ pc' = "loop"
    /\ UNCHANGED args

\* the loop body finds total_rate == 0 and breaks; the function returns
BreakZeroRate ==
    /\ pc = "loop"
    /\ LoopGuard(t, prey, pred)
    /\ ZeroRate(TotalRate(Rates(prey, pred)))
    /\ pc' = "done"
    /\ UNCHANGED <<args, prey, pred, t, dt, times, prey_pop, pred_pop, events>>

\* the loop guard is false; the function returns
ExitLoop ==
    /\ pc = "loop"
    /\ ~LoopGuard(t, prey, pred)
    /\ pc' = "done"
    /\ UNCHANGED <<args, prey, pred, t, dt, times, prey_pop, pred_pop, events>>

\* 1 / total_rate divides by zero, or np.random.exponential rejects a
\* negative scale: the exception leaves the function
RaiseError ==
    /\ pc = "loop"
    /\ LoopGuard(t, prey, pred)
    /\ LET total_rate == TotalRate(Rates(prey, pred))
       IN ~ZeroRate(total_rate) /\ total_rate <= 0
    /\ pc' = "error"
    /\ UNCHANGED <<args, prey, pred, t, dt, times, prey_pop, pred_pop, events>>

Next == Iterate \/ BreakZeroRate \/ ExitLoop \/ RaiseError

Spec == Init /\ [][Next]_vars

\* the function is one sequential computation: while a step is possible,
\* one is taken
FairSpec == Spec /\ WF_vars(Next)

(* ------------------------- shared vocabulary --------------------------- *)
Samples == 1 .. Len(times)
Last == Len(times)
NonNegativeRates == a >= 0 /\ b >= 0 /\ c >= 0 /\ d >= 0
InvalidConfiguration ==
    \/ a < 0 \/ b < 0 \/ c < 0 \/ d < 0
    \/ max_time <= 0
    \/ prey_init < 0 \/ pred_init < 0
InitialSampleOnly ==
    /\ times = <<0>>
    /\ prey_pop = <<prey_init>>
    /\ pred_pop = <<pred_init>>
\* total propensity at sample i
TotalRateAt(i) == TotalRate(Rates(prey_pop[i], pred_pop[i]))

(* ------------------------------- C1 ------------------------------------ *)
\* C1 (non-negativity): in a run started with non-negative populations and
\* non-negative rate coefficients, every recorded sample has prey >= 0 and
\* predator >= 0, whatever waiting times and uniform draws are made.
NonNegativity ==
    (prey_init >= 0 /\ pred_init >= 0 /\ NonNegativeRates)
        => \A i \in Samples : prey_pop[i] >= 0 /\ pred_pop[i] >= 0

\* a decrement has been applied and recorded, and it reached 0
NonNegativityWitness ==
    /\ prey_init >= 0 /\ pred_init >= 0 /\ NonNegativeRates
    /\ Len(times) >= 3
    /\ prey_pop[Last] = 0
    /\ \E i \in Samples : i < Last /\ pred_pop[i + 1] # pred_pop[i]

(* ------------------------------- C2 ------------------------------------ *)
\* C2 (bounded delta): between two consecutive samples exactly one of prey
\* and predator differs, by exactly +1 or -1, and the other is unchanged.
BoundedDelta ==
    \A i \in Samples : i < Last =>
        LET dprey == prey_pop[i + 1] - prey_pop[i]
            dpred == pred_pop[i + 1] - pred_pop[i]
        IN \/ dprey \in {-1, 1} /\ dpred = 0
           \/ dprey = 0 /\ dpred \in {-1, 1}

\* a prey event and a predator event have been applied in one trajectory
BoundedDeltaWitness ==
    /\ \E i \in Samples : i < Last /\ prey_pop[i + 1] # prey_pop[i]
    /\ \E i \in Samples : i < Last /\ pred_pop[i + 1] # pred_pop[i]

(* ------------------------------- C3 ------------------------------------ *)
\* C3 (monotonic time): the first recorded time is 0 and the recorded time
\* strictly increases from each sample to the next (stated here for calls
\* with a valid configuration only).
MonotonicTime ==
    ~InvalidConfiguration =>
        /\ times[1] = 0
        /\ \A i \in Samples : i < Last => times[i] < times[i + 1]

(* ------------------------------- C4 ------------------------------------ *)
\* C4 (postcondition): when the function returns from a call with
\* prey_init >= 1, pred_init >= 1, rates >= 0 and max_time > 0, the first
\* sample is (0, prey_init, pred_init) and the last sample has total
\* propensity 0, or time >= max_time, or prey = 0, or predator = 0.
Postcondition ==
    (/\ pc = "done"
     /\ prey_init >= 1 /\ pred_init >= 1
     /\ NonNegativeRates /\ max_time > 0)
        => /\ times[1] = 0
           /\ prey_pop[1] = prey_init
           /\ pred_pop[1] = pred_init
           /\ \/ TotalRateAt(Last) = 0
              \/ times[Last] >= max_time
              \/ prey_pop[Last] = 0
              \/ pred_pop[Last] = 0

\* the function has returned after applying events
PostconditionWitness ==
    /\ pc = "done"
    /\ prey_init >= 1 /\ pred_init >= 1
    /\ NonNegativeRates /\ max_time > 0
    /\ Len(times) >= 3
    /\ times[Last] >= max_time
    /\ prey_pop[Last] > 0 /\ pred_pop[Last] > 0

(* ------------------------------- C5 ------------------------------------ *)
\* C5 (horizon respected): a sample with time >= max_time is the last one
\* of its trajectory, and once it is recorded no further sample is
\* appended.
HorizonRespected ==
    /\ [](\A i \in Samples : times[i] >= max_time => i = Last)
    /\ [][times[Last] >= max_time =>
            /\ times' = times
            /\ prey_pop' = prey_pop
            /\ pred_pop' = pred_pop]_vars

\* an event overshot the horizon, was recorded, and the function returned
HorizonRespectedWitness ==
    /\ pc = "done"
    /\ max_time > 0
    /\ Len(times) >= 2
    /\ times[Last] > max_time
    /\ prey_pop[Last] > 0 /\ pred_pop[Last] > 0

(* ------------------------------- C6 ------------------------------------ *)
\* C6 (stop on zero total rate): when the total propensity at the current
\* state is 0 the run ends at once: the function returns with prey,
\* predator, time and the trajectory as they were.  With a = b = c = d = 0
\* and positive initial populations the trajectory is the initial sample
\* alone.
StopOnZeroTotalRate ==
    /\ [][(pc = "loop" /\ TotalRate(Rates(prey, pred)) = 0) =>
            /\ pc' = "done"
            /\ UNCHANGED <<prey, pred, t, times, prey_pop, pred_pop>>]_vars
    /\ []((/\ a = 0 /\ b = 0 /\ c = 0 /\ d = 0
           /\ prey_init > 0 /\ pred_init > 0)
            => pc # "error" /\ InitialSampleOnly)

\* the loop was entered, found total_rate == 0 and the function returned
StopOnZeroTotalRateWitness ==
    /\ pc = "done"
    /\ a = 0 /\ b = 0 /\ c = 0 /\ d = 0
    /\ prey_init > 0 /\ pred_init > 0
    /\ max_time > 0

(* ------------------------------- C7 ------------------------------------ *)
\* C7 as stated (scenario B, pure predator decay): the run ends only when
\* predator has reached 0 or the time has reached max_time.
ScenarioBPredatorDecay ==
    (ScenarioB /\ pc = "done") => (pred = 0 \/ t >= max_time)

\* C7 as amended: in scenario B the total rate at the start is c * 5 (500
\* hundredths), but the loop guard fails on prey = 0, no event is applied
\* and the trajectory is the single sample (0, 0, 5).
ScenarioBSingleSample ==
    ScenarioB =>
        /\ TotalRate(Rates(prey_init, pred_init)) = 500
        /\ pc # "error"
        /\ times = <<0>> /\ prey_pop = <<0>> /\ pred_pop = <<5>>
        /\ prey = 0 /\ pred = 5 /\ t = 0

\* scenario B has returned
ScenarioBWitness == ScenarioB /\ pc = "done"

(* ------------------------------- C8 ------------------------------------ *)
\* C8 (invalid configuration): a call with a negative rate coefficient,
\* max_time <= 0 or a negative initial population is reported as an error
\* before the loop begins: no event is applied and the function does not
\* return a trajectory.
InvalidConfigurationRejected ==
    InvalidConfiguration => (pc # "done" /\ InitialSampleOnly)

(* ------------------------------- C9 ------------------------------------ *)
\* C9 (degenerate initial state): when either initial population is 0, the
\* other is >= 0 and the rates are >= 0, no error is raised, no event is
\* applied and the trajectory is the single sample (0, prey_init, pred_init).
DegenerateInitialState ==
    (/\ prey_init >= 0 /\ pred_init >= 0
     /\ (prey_init = 0 \/ pred_init = 0)
     /\ NonNegativeRates)
        => /\ pc # "error"
           /\ InitialSampleOnly
           /\ prey = prey_init /\ pred = pred_init /\ t = 0

\* a call without predators, where prey could otherwise be born, returned
DegenerateInitialStateWitness ==
    /\ pc = "done"
    /\ pred_init = 0 /\ prey_init > 0
    /\ a > 0 /\ b >= 0 /\ c >= 0 /\ d >= 0
    /\ max_time > 0

(* ------------------------------- C10 ----------------------------------- *)
\* C10 (absorption): if a sample has prey = 0 then every later sample of
\* the trajectory has prey = 0.
AbsorptionCorrectness ==
    \A i \in Samples : \A j \in Samples :
        (i < j /\ prey_pop[i] = 0) => prey_pop[j] = 0

\* prey was driven to 0 by predation while predators remain
AbsorptionCorrectnessWitness ==
    /\ pc = "done"
    /\ Len(times) >= 2
    /\ prey_pop[Last] = 0 /\ prey_pop[Last - 1] = 1
    /\ pred_pop[Last] > 0
    /\ a > 0 /\ c > 0
    /\ times[Last] < max_time

(* ------------------------------- C11 ----------------------------------- *)
\* C11 (zero-propensity events are never selected): in every state, for
\* every uniform draw r in [0, total_rate), the selected event has a
\* propensity different from 0, the else branch included; and no applied
\* step changes a count through an event whose propensity was 0, so prey
\* (predator) is never decremented when it is already 0.
ZeroPropensityNeverSelected ==
    /\ [](LET rates == Rates(prey, pred)
          IN \A r \in UniformDraws(TotalRate(rates)) :
                rates[Event(r, rates) + 1] # 0)
    /\ [][LET rates == Rates(prey, pred)
          IN /\ prey' = prey + 1 => rates[1] # 0
             /\ prey' = prey - 1 => (rates[2] # 0 /\ prey > 0)
             /\ pred' = pred - 1 => (rates[3] # 0 /\ pred > 0)
             /\ pred' = pred + 1 => rates[4] # 0]_vars

\* predation was applied from a state whose birth interval is empty, so
\* the draw r = 0 lies on the boundary of a zero-width interval
ZeroPropensityNeverSelectedWitness ==
    /\ events >= 1
    /\ a = 0 /\ b > 0
    /\ prey_init > 0 /\ pred_init > 0
    /\ prey_pop[2] = prey_pop[1] - 1

(* ------------------------------- C12 ----------------------------------- *)
\* u lies in the half-open interval [lo, hi)
InInterval(u, lo, hi) == lo <= u /\ u < hi

\* the delta table of the specification: <<prey delta, predator delta>>
DeltaTable == <<(<<1, 0>>), (<<-1, 0>>), (<<0, -1>>), (<<0, 1>>)>>

\* event i (1..4) owns the i-th of the four contiguous intervals
PartitionHas(i, u, rates) ==
    LET lo == IF i = 1 THEN 0
              ELSE IF i = 2 THEN rates[1]
              ELSE IF i = 3 THEN rates[1] + rates[2]
              ELSE rates[1] + rates[2] + rates[3]
    IN InInterval(u, lo, lo + rates[i])

\* C12 (partition and delta table): with non-negative propensities, for
\* every state and every u in [0, total_rate) the selector and the update
\* apply prey+1 iff u is in [0, r0), prey-1 iff u is in [r0, r0+r1), pred-1
\* iff u is in [r0+r1, r0+r1+r2) and pred+1 iff u is in [r0+r1+r2,
\* total_rate); and every applied step is exactly one of these four deltas,
\* the one of an interval that some u of [0, total_rate) lies in.
PartitionAndDeltaTable ==
    /\ []((NonNegativeRates /\ prey >= 0 /\ pred >= 0) =>
            LET rates == Rates(prey, pred)
            IN \A u \in UniformDraws(TotalRate(rates)) :
                  LET ev == Event(u, rates)
                      dprey == PreyAfter(ev, prey) - prey
                      dpred == PredAfter(ev, pred) - pred
                  IN \A i \in 1 .. 4 :
                        (dprey = DeltaTable[i][1] /\ dpred = DeltaTable[i][2])
                            <=> PartitionHas(i, u, rates))
    /\ [][(NonNegativeRates /\ events' # events) =>
            LET rates == Rates(prey, pred)
            IN \E i \in 1 .. 4 :
                  /\ prey' = prey + DeltaTable[i][1]
                  /\ pred' = pred + DeltaTable[i][2]
                  /\ \E u \in UniformDraws(TotalRate(rates)) :
                        PartitionHas(i, u, rates)]_vars

\* all four intervals are non-empty and the last one was selected
PartitionAndDeltaTableWitness ==
    /\ events >= 1
    /\ a > 0 /\ b > 0 /\ c > 0 /\ d > 0
    /\ prey_init > 0 /\ pred_init > 0
    /\ pred_pop[2] = pred_pop[1] + 1

(* ------------------------------- C14 ----------------------------------- *)
\* C14 (horizon overshoot is recorded, not clipped): when an iteration
\* draws a waiting time dt with t + dt >= max_time, it was entered with
\* t < max_time, the event's delta is applied, the sample
\* (t + dt, prey, predator) is appended with the time as drawn, and the
\* loop goes back to its guard.
HorizonOvershootRecorded ==
    [][(events' # events /\ t + dt' >= max_time) =>
          /\ t < max_time
          /\ t' = t + dt'
          /\ times' = Append(times, t + dt')
          /\ prey_pop' = Append(prey_pop, prey')
          /\ pred_pop' = Append(pred_pop, pred')
          /\ \/ prey' \in {prey - 1, prey + 1} /\ pred' = pred
             \/ prey' = prey /\ pred' \in {pred - 1, pred + 1}
          /\ pc' = "loop"]_vars

\* the last recorded time is strictly beyond the horizon
HorizonOvershootRecordedWitness ==
    /\ pc = "done"
    /\ events >= 1
    /\ t > max_time /\ max_time > 0
    /\ times[Last] = t
    /\ times[Last - 1] + dt = t
    /\ times[Last - 1] < max_time

(* ------------------------------- C15 ----------------------------------- *)
\* C15 (loop-guard invariant): an event is applied only from a state with
\* prey >= 1, predator >= 1 and time < max_time; so every sample but the
\* last has prey >= 1, predator >= 1 and time < max_time.
LoopGuardInvariant ==
    /\ [][events' # events =>
            (prey >= 1 /\ pred >= 1 /\ t < max_time)]_vars
    /\ [](\A i \in Samples : i < Last =>
            /\ prey_pop[i] >= 1
            /\ pred_pop[i] >= 1
            /\ times[i] < max_time)

\* the run ended on prey = 0 before the horizon although the total
\* propensity is still positive
LoopGuardInvariantWitness ==
    /\ pc = "done"
    /\ events >= 1
    /\ prey_pop[Last] = 0 /\ pred_pop[Last] > 0
    /\ NonNegativeRates /\ c > 0
    /\ TotalRateAt(Last) > 0
    /\ times[Last] < max_time

(* ------------------------------- C16 ----------------------------------- *)
\* some recorded waiting time is below one tick
ZeroWaitDrawn ==
    \E i \in Samples : i < Last /\ times[i + 1] - times[i] < 1

\* C16 (termination): a run whose waiting times are all at least one tick
\* eventually leaves the loop; with non-negative rates it leaves it by
\* returning, never by an exception; and once the function has returned
\* nothing changes any more.
Termination ==
    /\ <>(pc # "loop" \/ ZeroWaitDrawn)
    /\ [](NonNegativeRates => pc # "error")
    /\ [][pc = "done" => UNCHANGED vars]_vars

\* a run with waiting times of a tick or more returned after two events
TerminationWitness ==
    /\ pc = "done"
    /\ events >= 2
    /\ ~ZeroWaitDrawn
    /\ NonNegativeRates /\ max_time > 0

(* ------------------------------- C17 ----------------------------------- *)
\* C17 (append-only trajectory): an iteration that applies an event
\* appends exactly one entry to each of times, prey_pop and pred_pop and
\* leaves the earlier entries alone; a step that applies no event (the
\* break on total_rate == 0 included) changes none of them; so the three
\* sequences always have the same length, 1 + the number of events applied.
AppendOnlyTrajectory ==
    /\ [](/\ Len(times) = 1 + events
          /\ Len(prey_pop) = 1 + events
          /\ Len(pred_pop) = 1 + events)
    /\ [][/\ events' \in {events, events + 1}
          /\ events' = events + 1 =>
                /\ times' = Append(times, t')
                /\ prey_pop' = Append(prey_pop, prey')
                /\ pred_pop' = Append(pred_pop, pred')
          /\ events' = events =>
                /\ times' = times
                /\ prey_pop' = prey_pop
                /\ pred_pop' = pred_pop]_vars

\* two events have been applied and recorded
AppendOnlyTrajectoryWitness ==
    /\ events = 2
    /\ Len(times) = 3
    /\ prey_pop[3] # prey_pop[1]

====
